---- MODULE Spec2Model ----
(***************************************************************************)
(* Model of the SpotifyAgent client core: the retry utility                *)
(* (retryWithBackoff), the error classes, and SpotifyClient (token state,  *)
(* request/response interceptors, OAuth exchange and refresh, the          *)
(* ensureValidToken pre-flight and the four catalog operations).           *)
(*                                                                         *)
(* Each logical task (an async call chain of the host program) is at one   *)
(* position pc[t] and makes one asynchronous call of the public API; calls *)
(* in sequence or in parallel are several tasks.  A step of the model is   *)
(* the synchronous run of code between two suspension points (a network    *)
(* await or the backoff timer).                                            *)
(* Time is in milliseconds, as Date.now() and setTimeout count it.         *)
(***************************************************************************)
EXTENDS Integers, Sequences, FiniteSets, TLC

(***************************************************************************)
(* Bounds of the model (not program constants).                            *)
(***************************************************************************)
MaxTicks == 1          \* clock advances that are not backoff sleeps
TickMs == 1000         \* milliseconds of one such clock advance
MaxRetriesBound == 2   \* largest maxRetries of a caller-supplied policy

(***************************************************************************)
(* Program constants.                                                      *)
(***************************************************************************)
DefaultMaxRetries == 3
DefaultBaseDelay == 1000
DefaultMaxDelay == 10000
DefaultBackoffFactor == 2
RefreshHorizonMs == 5 * 60 * 1000
TrackBatchSize == 50
UriBatchSize == 100

ApiOrigin == "https://api.spotify.com/v1"
TokenUrl == "https://accounts.spotify.com/api/token"

Tasks == {1, 2}

Min(a, b) == IF a <= b THEN a ELSE b
Max(a, b) == IF a >= b THEN a ELSE b

RECURSIVE Pow(_, _)
\* Math.pow on the non-negative integers the policies use
Pow(b, e) == IF e <= 0 THEN 1 ELSE b * Pow(b, e - 1)

(***************************************************************************)
(* JavaScript values the code handles.                                     *)
(***************************************************************************)
\* a response body: absent, or an object whose error.message may be empty
NoBody == [present |-> FALSE, message |-> ""]
Bodies == {NoBody,
           [present |-> TRUE, message |-> ""],
           [present |-> TRUE, message |-> "Service unavailable"]}

\* a header: absent, or a string (the sequence of its characters)
AbsentHeader == [present |-> FALSE, text |-> << >>]
HeaderOf(text) == [present |-> TRUE, text |-> text]
RetryAfterHeaders ==
  {AbsentHeader, HeaderOf(<< >>), HeaderOf(<<"5">>), HeaderOf(<<"1", "2", "0">>)}

\* a number-or-undefined slot: undefined, NaN or an integer
Undefined == [tag |-> "undefined", v |-> 0]
NaN == [tag |-> "NaN", v |-> 0]
Num(n) == [tag |-> "num", v |-> n]

Digits == <<"0", "1", "2", "3", "4", "5", "6", "7", "8", "9">>
IsDigit(c) == \E i \in 1..10 : Digits[i] = c
DigitVal(c) == (CHOOSE i \in 1..10 : Digits[i] = c) - 1

RECURSIVE SkipSpace(_)
SkipSpace(s) == IF s # << >> /\ Head(s) = " " THEN SkipSpace(Tail(s)) ELSE s

RECURSIVE DigitRun(_)
\* the longest prefix of s made of decimal digits
DigitRun(s) == IF s # << >> /\ IsDigit(Head(s))
               THEN <<Head(s)>> \o DigitRun(Tail(s)) ELSE << >>

RECURSIVE DecimalValue(_)
DecimalValue(ds) == IF ds = << >> THEN 0
                    ELSE 10 * DecimalValue(SubSeq(ds, 1, Len(ds) - 1))
                         + DigitVal(ds[Len(ds)])

\* parseInt(text, 10): leading white space skipped, an optional sign, then the
\* longest run of digits; NaN when there is no digit
ParseInt(text) ==
  LET s == SkipSpace(text)
      neg == s # << >> /\ Head(s) = "-"
      body == IF s # << >> /\ Head(s) \in {"-", "+"} THEN Tail(s) ELSE s
      ds == DigitRun(body)
  IN IF ds = << >> THEN NaN
     ELSE Num(IF neg THEN 0 - DecimalValue(ds) ELSE DecimalValue(ds))

(***************************************************************************)
(* utils/errors: the error classes.  id is the identity of the thrown      *)
(* object (every `new` makes a distinct object).                           *)
(***************************************************************************)
SpotifyAPIError(message, status, response, id) ==
  [name |-> "SpotifyAPIError", message |-> message, status |-> status,
   retryAfter |-> Undefined, response |-> response, originalError |-> "",
   id |-> id]

AuthenticationError(message, id) ==
  [SpotifyAPIError(message, 401, NoBody, id) EXCEPT !.name = "AuthenticationError"]

RateLimitError(message, retryAfter, id) ==
  [SpotifyAPIError(message, 429, NoBody, id)
     EXCEPT !.name = "RateLimitError", !.retryAfter = retryAfter]

NetworkError(message, originalError, id) ==
  [name |-> "NetworkError", message |-> message, status |-> 0,
   retryAfter |-> Undefined, response |-> NoBody,
   originalError |-> originalError, id |-> id]

\* new Error(message)
GenericError(message, id) ==
  [name |-> "Error", message |-> message, status |-> 0,
   retryAfter |-> Undefined, response |-> NoBody, originalError |-> "",
   id |-> id]

\* the value `undefined` where an error is expected (an unassigned lastError)
NoError ==
  [name |-> "undefined", message |-> "", status |-> 0,
   retryAfter |-> Undefined, response |-> NoBody, originalError |-> "",
   id |-> 0]

TypedFailureNames ==
  {"AuthenticationError", "RateLimitError", "SpotifyAPIError", "NetworkError"}

(***************************************************************************)
(* What axios hands to the response interceptor's error handler: an error  *)
(* with a response (a failing status), with a request but no response, or  *)
(* with neither (the request could not be set up).                         *)
(***************************************************************************)
NoResponse == [present |-> FALSE, status |-> 0, retryAfter |-> AbsentHeader,
               data |-> NoBody]
HttpFailure(status, header, data) ==
  [response |-> [present |-> TRUE, status |-> status, retryAfter |-> header,
                 data |-> data],
   request |-> TRUE, message |-> "Request failed with status code"]
NoResponseFailure(message) ==
  [response |-> NoResponse, request |-> TRUE, message |-> message]
SetupFailure(message) ==
  [response |-> NoResponse, request |-> FALSE, message |-> message]

RawFailures ==
  {HttpFailure(401, AbsentHeader, [present |-> TRUE, message |-> "The access token expired"])}
  \cup {HttpFailure(429, h, NoBody) : h \in RetryAfterHeaders}
  \cup {HttpFailure(403, AbsentHeader, NoBody),
        HttpFailure(500, AbsentHeader, [present |-> TRUE, message |-> ""]),
        HttpFailure(500, HeaderOf(<<"5">>), [present |-> TRUE, message |-> "Service unavailable"]),
        NoResponseFailure("timeout of 10000ms exceeded"),
        SetupFailure("Invalid URL")}

\* a JavaScript string used as a condition
Truthy(header) == header.present /\ header.text # << >>

\* variant: the 429 branch does not pass the header on
ClassifyIgnoringHeader(error, id) ==
  IF error.response.present
  THEN IF error.response.status = 401
       THEN AuthenticationError("Invalid or expired token", id)
       ELSE IF error.response.status = 429
       THEN RateLimitError("Rate limit exceeded", Undefined, id)
       ELSE SpotifyAPIError(
              IF error.response.data.message # ""
              THEN error.response.data.message ELSE "Spotify API error",
              error.response.status, error.response.data, id)
  ELSE IF error.request
  THEN NetworkError("Network error", error.message, id)
  ELSE GenericError(error.message, id)

\* variant: without the `else if (error.request)` branch
ClassifyNoRequestBranch(error, id) ==
  IF error.response.present
  THEN ClassifyIgnoringHeader(error, id)
  ELSE GenericError(error.message, id)

\* the response interceptor's error handler: the error it throws
Classify(error, id) ==
  IF error.response.present
  THEN IF error.response.status = 401
       THEN AuthenticationError("Invalid or expired token", id)
       ELSE IF error.response.status = 429
       THEN RateLimitError("Rate limit exceeded",
              IF Truthy(error.response.retryAfter)
              THEN ParseInt(error.response.retryAfter.text) ELSE Undefined,
              id)
       ELSE SpotifyAPIError(
              IF error.response.data.message # ""
              THEN error.response.data.message ELSE "Spotify API error",
              error.response.status, error.response.data, id)
  ELSE IF error.request
  THEN NetworkError("Network error", error.message, id)
  ELSE GenericError(error.message, id)

(***************************************************************************)
(* utils/retry: the retry policy and its delay.                            *)
(***************************************************************************)
\* RetryOptions: a record holding any subset of the four fields
RetryOptionSets ==
  {[x \in {} |-> 0]}
  \cup {[maxRetries |-> m] : m \in (0 - 1)..MaxRetriesBound}
  \cup {[maxRetries |-> MaxRetriesBound, baseDelay |-> 1000, maxDelay |-> 2500,
         backoffFactor |-> 3],
        [maxRetries |-> 1, baseDelay |-> 3000, maxDelay |-> 2000,
         backoffFactor |-> 2]}

Field(options, name, default) ==
  IF name \in DOMAIN options THEN options[name] ELSE default

\* the destructuring with defaults at the head of retryWithBackoff
WithDefaults(options) ==
  [maxRetries |-> Field(options, "maxRetries", DefaultMaxRetries),
   baseDelay |-> Field(options, "baseDelay", DefaultBaseDelay),
   maxDelay |-> Field(options, "maxDelay", DefaultMaxDelay),
   backoffFactor |-> Field(options, "backoffFactor", DefaultBackoffFactor)]

\* variant: without the Math.min against maxDelay
DelayUncapped(p, attempt) == p.baseDelay * Pow(p.backoffFactor, attempt)

\* Math.min(baseDelay * Math.pow(backoffFactor, attempt), maxDelay)
Delay(p, attempt) ==
  Min(p.baseDelay * Pow(p.backoffFactor, attempt), p.maxDelay)

\* variant: attempt < maxRetries
LoopConditionStrict(attempt, maxRetries) == attempt < maxRetries

\* for (...; attempt <= maxRetries; ...)
LoopCondition(attempt, maxRetries) == attempt <= maxRetries

\* if (attempt === maxRetries) break
IsLastAttempt(attempt, maxRetries) == attempt = maxRetries

(***************************************************************************)
(* Optional values, token snapshots, requests, results.                    *)
(***************************************************************************)
None == << >>
Some(x) == <<x>>

\* AuthTokens; tokens are numbered, 0 is the empty (falsy) string
Snapshot(access, refresh, expiresIn, expiresAt) ==
  [access_token |-> access, refresh_token |-> refresh, token_type |-> "Bearer",
   expires_in |-> expiresIn, scope |-> "user-library-read", expires_at |-> expiresAt]

NoAuth == 0

\* a URL: its origin ("" for a path relative to the base URL), its path and
\* the value interpolated into the path
RelativeUrl(path, param) == [origin |-> "", path |-> path, param |-> param]
AbsoluteUrl(origin, path) == [origin |-> origin, path |-> path, param |-> ""]

ApiRequest(method, url, payload) ==
  [endpoint |-> "api", method |-> method, url |-> url, payload |-> payload,
   auth |-> NoAuth]
TokenRequest(grant, payload) ==
  [endpoint |-> "token", method |-> "POST", url |-> AbsoluteUrl(TokenUrl, ""),
   payload |-> <<grant>> \o payload, auth |-> NoAuth]

\* variant: the interceptor attaches nothing
RequestInterceptorNoHeader(config, toks) == config

\* the request interceptor: the bearer credential of the stored snapshot
RequestInterceptor(config, toks) ==
  IF toks # None THEN [config EXCEPT !.auth = toks[1].access_token] ELSE config

Pending == [state |-> "pending", value |-> << >>, error |-> NoError]
Fulfilled(v) == [state |-> "fulfilled", value |-> v, error |-> NoError]
Rejected(e) == [state |-> "rejected", value |-> << >>, error |-> e]

NoRetry ==
  [running |-> FALSE, maxRetries |-> 0, baseDelay |-> 0, maxDelay |-> 0,
   backoffFactor |-> 0, attempt |-> 0, lastError |-> NoError, invoked |-> 0,
   delays |-> << >>, wakeAt |-> 0]

NoLocal ==
  [nextUrl |-> None, allSongs |-> << >>, batches |-> << >>, idx |-> 0,
   allTracks |-> << >>, userId |-> ""]

NoCall == [name |-> "", arg |-> << >>]

\* no body received from the token endpoint
NoTokenData ==
  [access_token |-> 0, refresh_token |-> 0, token_type |-> "", expires_in |-> 0,
   scope |-> ""]

\* a task that runs no call
Idle ==
  [pc |-> "idle", call |-> NoCall, retry |-> NoRetry, local |-> NoLocal,
   sent |-> << >>, result |-> Pending,
   \* history: the last failure the transport was handed and the error thrown
   \* for it, and the outcome of the call's ensureValidToken
   raw |-> SetupFailure(""), thrown |-> NoError,
   preflight |-> [status |-> "none", error |-> NoError],
   \* history: the body of the last successful token-endpoint response
   tokenData |-> NoTokenData,
   \* the service's side: how often it has carried out the write that the
   \* current retried call asks for
   applied |-> 0]

Begin(name, arg) ==
  [Idle EXCEPT !.pc = "running", !.call = [name |-> name, arg |-> arg]]

\* variant: a rejected call hands over what it had accumulated
RejectKeepingItems(s, e) ==
  [s EXCEPT !.pc = "done", !.result = [Rejected(e) EXCEPT !.value = s.local.allSongs]]

Reject(s, e) == [s EXCEPT !.pc = "done", !.result = Rejected(e)]
Resolve(s, v) == [s EXCEPT !.pc = "done", !.result = Fulfilled(v)]

\* the request in flight and its number in the invocation
InFlight(s) == s.sent[Len(s.sent)]
ReqId(s) == Len(s.sent)

VARIABLES
  tokens,   \* SpotifyClient.tokens: None (null) or Some(snapshot)
  now,      \* Date.now()
  ticks,    \* clock advances taken
  issued,   \* access tokens the token endpoint has issued
  called,   \* the tasks that have made their call
  active,   \* the tasks that make calls
  task      \* per task: position, call, retrier frame, locals, requests sent, result

vars == <<tokens, now, ticks, issued, called, active, task>>

pc(t) == task[t].pc
Put(t, s) == task' = [task EXCEPT ![t] = s]

InitCommon ==
  /\ tokens = None
  /\ now = 0
  /\ ticks = 0
  /\ issued = 0
  /\ called = {}
  /\ task = [t \in Tasks |-> Idle]

Init == InitCommon /\ active = {1}

CanStart(t) == t \in active /\ pc(t) = "idle" /\ t \notin called

Started(t) == called' = called \cup {t}

\* time passes while tasks wait
Tick ==
  /\ ticks < MaxTicks
  /\ ticks' = ticks + 1
  /\ now' = now + TickMs
  /\ UNCHANGED <<tokens, issued, called, active, task>>

(***************************************************************************)
(* Session: setTokens, exchangeCodeForToken, refreshAccessToken,           *)
(* ensureValidToken.                                                       *)
(***************************************************************************)
StoredSnapshots ==
  {Snapshot(101, r, 3600, now + RefreshHorizonMs + d) :
     r \in {201}, d \in {0 - 1, 0, 1, 3300000}}
  \cup {Snapshot(101, 0, 3600, now + RefreshHorizonMs)}
  \* a snapshot restored from storage after its expiry
  \cup {Snapshot(101, 201, 3600, now - 1)}

\* variant: a snapshot past its expiry does not count
IsAuthenticatedUnexpired == tokens # None /\ tokens[1].expires_at > now

\* isAuthenticated(): this.tokens !== null
IsAuthenticated == tokens # None

\* getTokens()
GetTokens == tokens

\* setTokens(tokens): synchronous, between the asynchronous calls of a task
SetTokens(t) ==
  /\ t \in active /\ pc(t) = "idle"
  /\ \E s \in StoredSnapshots : tokens' = Some(s)
  /\ UNCHANGED <<now, ticks, issued, called, active, task>>

\* what the token endpoint answers on success
TokenData(expiresIn, refresh) ==
  [access_token |-> issued + 1, refresh_token |-> refresh, token_type |-> "Bearer",
   expires_in |-> expiresIn, scope |-> "user-library-read"]

\* error.response?.data?.error_description of a failed token request ("" when absent)
TokenFailures == {"", "Invalid refresh token"}

\* variant: the failure of the token request is rethrown as it came
TokenErrorUnwrapped(desc, fallback, id) ==
  GenericError(IF desc # "" THEN desc ELSE fallback, id)

\* the catch blocks of exchangeCodeForToken and refreshAccessToken:
\* new AuthenticationError(error.response?.data?.error_description || fallback)
TokenError(desc, fallback, id) ==
  AuthenticationError(IF desc # "" THEN desc ELSE fallback, id)

\* variant: a failed token request signs the session out
TokenFailedClears(toks) == None

\* this.tokens when a token request has failed: the catch blocks do not assign it
TokenFailed(toks) == toks

\* config.spotify, read from the environment
ClientId == "CLIENT_ID"
RedirectUri == "http://localhost:3000/callback"

\* the values generateAuthUrl is called with: none, "" and a token
AuthStates == {"undefined", "", "xyz"}

\* variant: a nonce taken from the clock is appended
AuthUrlWithNonce(state) ==
  [origin |-> "https://accounts.spotify.com/authorize",
   params |-> <<<<"client_id", ClientId>>, <<"response_type", "code">>,
                <<"redirect_uri", RedirectUri>>,
                <<"scope", "user-library-read playlist-modify-public playlist-modify-private">>,
                <<"nonce", IF now = 0 THEN "0" ELSE "later">>>>
              \o (IF state \notin {"undefined", ""} THEN <<<<"state", state>>>> ELSE << >>)]

\* `https://accounts.spotify.com/authorize?${params.toString()}`, the
\* parameters in the order of the object literal; ...(state && { state })
\* adds the last one for a non-empty string only
AuthUrl(state) ==
  [origin |-> "https://accounts.spotify.com/authorize",
   params |-> <<<<"client_id", ClientId>>, <<"response_type", "code">>,
                <<"redirect_uri", RedirectUri>>,
                <<"scope", "user-library-read playlist-modify-public playlist-modify-private">>>>
              \o (IF state \notin {"undefined", ""} THEN <<<<"state", state>>>> ELSE << >>)]

\* generateAuthUrl(state): synchronous, returns the URL
GenerateAuthUrl(t) ==
  /\ CanStart(t) /\ Started(t)
  /\ \E state \in AuthStates :
       Put(t, Resolve(Begin("generateAuthUrl", state), <<AuthUrl(state)>>))
  /\ UNCHANGED <<tokens, now, ticks, issued, active>>

StartExchange(t) ==
  /\ CanStart(t) /\ Started(t)
  /\ \E code \in {"AUTH_CODE"} :
       Put(t, [Begin("exchangeCodeForToken", code) EXCEPT
                 !.pc = "exchange_wait",
                 !.sent = <<TokenRequest("authorization_code", <<code>>)>>])
  /\ UNCHANGED <<tokens, now, ticks, issued, active>>

\* variant: the lifetime is taken for milliseconds
ExchangedMillis(d, clock) ==
  Snapshot(d.access_token, d.refresh_token, d.expires_in, clock + d.expires_in)

\* { ...tokenData, expires_at: new Date(Date.now() + tokenData.expires_in * 1000) }
Exchanged(d, clock) ==
  [access_token |-> d.access_token, refresh_token |-> d.refresh_token,
   token_type |-> d.token_type, expires_in |-> d.expires_in, scope |-> d.scope,
   expires_at |-> clock + d.expires_in * 1000]

ExchangeResponse(t) ==
  /\ pc(t) = "exchange_wait"
  /\ \/ \E e \in {300, 301, 3600} :
          LET d == TokenData(e, 203)
              snap == Exchanged(d, now)
          IN /\ tokens' = Some(snap)
             /\ issued' = issued + 1
             /\ Put(t, Resolve([task[t] EXCEPT !.tokenData = d], <<snap>>))
     \/ \E desc \in TokenFailures :
          /\ Put(t, Reject(task[t], TokenError(desc, "Token exchange failed",
                                               ReqId(task[t]))))
          /\ tokens' = TokenFailed(tokens)
          /\ UNCHANGED issued
  /\ UNCHANGED <<now, ticks, called, active>>

\* variant: without the `if (!this.tokens?.refresh_token)` guard
RefreshAccessTokenNoGuard(s, toks) ==
  [s EXCEPT !.pc = "refresh_wait",
            !.sent = Append(@, TokenRequest("refresh_token",
                                            <<IF toks = None THEN 0
                                              ELSE toks[1].refresh_token>>))]

\* refreshAccessToken up to its await: the guard and the request
RefreshAccessToken(s, toks) ==
  IF toks = None \/ toks[1].refresh_token = 0
  THEN Reject(s, AuthenticationError("No refresh token available", 0))
  ELSE [s EXCEPT !.pc = "refresh_wait",
                 !.sent = Append(@, TokenRequest("refresh_token",
                                                 <<toks[1].refresh_token>>))]

\* variant: expires_at < fiveMinutesFromNow
NeedsRefreshStrict(snap, clock) == snap.expires_at < clock + RefreshHorizonMs

\* if (this.tokens.expires_at <= fiveMinutesFromNow)
NeedsRefresh(snap, clock) == snap.expires_at <= clock + RefreshHorizonMs

\* the promise of ensureValidToken settles
PreflightFailed(s, e) == [Reject(s, e) EXCEPT !.preflight = [status |-> "failed", error |-> e]]
PreflightOk(s) ==
  [s EXCEPT !.pc = "ensured", !.preflight = [status |-> "ok", error |-> NoError]]

\* variant: without the `if (!this.tokens)` guard
EnsureValidTokenNoNullCheck(s, toks, clock) ==
  IF toks = None
  THEN PreflightOk(s)
  ELSE IF NeedsRefresh(toks[1], clock)
  THEN LET r == RefreshAccessToken([s EXCEPT !.preflight.status = "pending"], toks)
       IN IF r.pc = "done" THEN PreflightFailed(s, r.result.error) ELSE r
  ELSE PreflightOk(s)

\* variant: refreshAccessToken() is called but not awaited
EnsureValidTokenNotAwaited(s, toks, clock) ==
  IF toks = None
  THEN PreflightFailed(s, AuthenticationError("Not authenticated", 0))
  ELSE IF NeedsRefresh(toks[1], clock)
  THEN LET r == RefreshAccessToken([s EXCEPT !.preflight.status = "pending"], toks)
       IN IF r.pc = "done" THEN PreflightFailed(s, r.result.error)
          ELSE [r EXCEPT !.pc = "ensured"]
  ELSE PreflightOk(s)

\* ensureValidToken up to its first await
EnsureValidToken(s, toks, clock) ==
  IF toks = None
  THEN PreflightFailed(s, AuthenticationError("Not authenticated", 0))
  ELSE IF NeedsRefresh(toks[1], clock)
  THEN LET r == RefreshAccessToken([s EXCEPT !.preflight.status = "pending"], toks)
       IN IF r.pc = "done" THEN PreflightFailed(s, r.result.error) ELSE r
  ELSE PreflightOk(s)

StartRefresh(t) ==
  /\ CanStart(t) /\ Started(t)
  /\ Put(t, RefreshAccessToken(Begin("refreshAccessToken", << >>), tokens))
  /\ UNCHANGED <<tokens, now, ticks, issued, active>>

\* variant: the stored snapshot is replaced by the response body
RefreshedReplacingAll(toks, d, clock) == Some(Exchanged(d, clock))

\* the stored snapshot after a successful refresh
Refreshed(toks, d, clock) ==
  IF toks = None
  THEN Some([access_token |-> d.access_token,
             expires_at |-> clock + d.expires_in * 1000])
  ELSE Some([toks[1] EXCEPT !.access_token = d.access_token,
                            !.expires_at = clock + d.expires_in * 1000])

RefreshResponse(t) ==
  /\ pc(t) = "refresh_wait"
  /\ \/ \E e \in {300, 3600}, r \in {0, 202} :
          LET d == TokenData(e, r)
          IN /\ tokens' = Refreshed(tokens, d, now)
             /\ issued' = issued + 1
             /\ Put(t, LET s == [task[t] EXCEPT !.tokenData = d]
                       IN IF s.call.name = "refreshAccessToken"
                          THEN Resolve(s, <<tokens'[1].access_token>>)
                          ELSE PreflightOk(s))
     \/ \E desc \in TokenFailures :
          LET e == TokenError(desc, "Token refresh failed", ReqId(task[t]))
          IN /\ Put(t, IF task[t].call.name = "refreshAccessToken"
                       THEN Reject(task[t], e)
                       ELSE PreflightFailed(task[t], e))
             /\ tokens' = TokenFailed(tokens)
             /\ UNCHANGED issued
  /\ UNCHANGED <<now, ticks, called, active>>

\* the caller takes the settled result; the task is over
Return(t) ==
  /\ pc(t) = "done"
  /\ Put(t, Idle)
  /\ UNCHANGED <<tokens, now, ticks, issued, called, active>>

(***************************************************************************)
(* The resource API as the client sees it.                                 *)
(***************************************************************************)
NoData == [value |-> << >>, items |-> << >>, next |-> None, tracks |-> << >>,
           id |-> ""]

Item(i) == [added_at |-> "2024-01-01", track |-> i]

\* the paths of the pages of /me/tracks
PagePaths == <<"/me/tracks?limit=50", "/me/tracks?offset=50&limit=50",
               "/me/tracks?offset=100&limit=50">>

\* the user's saved items, as the pages the service delivers
Libraries ==
  {<< << >> >>,
   << <<Item(1), Item(2)>>, <<Item(3)>> >>,
   << <<Item(1)>>, << >>, <<Item(2), Item(3)>> >>}

\* the page a request URL names (0: none); a relative URL is joined to the
\* client's base URL, an absolute one is used as it is
PageIndex(url) ==
  IF url.origin \in {"", ApiOrigin} /\ \E k \in 1..Len(PagePaths) : PagePaths[k] = url.path
  THEN CHOOSE k \in 1..Len(PagePaths) : PagePaths[k] = url.path
  ELSE 0

PageData(lib, k) ==
  [NoData EXCEPT !.items = lib[k],
                 !.next = IF k < Len(lib)
                          THEN Some(AbsoluteUrl(ApiOrigin, PagePaths[k + 1]))
                          ELSE None]

\* the ids GET /me can answer with
UserIds == {"user_a", "user_b"}

\* the 2xx bodies the service can answer the request in flight with
SuccessData(s) ==
  LET req == InFlight(s)
  IN CASE s.call.name = "retryWithBackoff" ->
            {[NoData EXCEPT !.value = <<ReqId(s)>>]}
       [] s.call.name = "getLikedSongs" ->
            LET k == PageIndex(req.url)
            IN IF k \in 1..Len(s.call.arg) THEN {PageData(s.call.arg, k)} ELSE {}
       [] s.call.name = "getTrackDetails" ->
            {[NoData EXCEPT !.tracks = req.payload]}
       [] s.call.name = "createPlaylist" /\ req.method = "GET" ->
            {[NoData EXCEPT !.id = u] : u \in UserIds}
       [] s.call.name = "createPlaylist" /\ req.method = "POST" ->
            {[NoData EXCEPT !.id = "playlist_1"]}
       [] s.call.name = "addTracksToPlaylist" ->
            {[NoData EXCEPT !.id = "snapshot_1"]}
       [] OTHER -> {}

(***************************************************************************)
(* retryWithBackoff, from the point of view of the task that awaits it.    *)
(***************************************************************************)
Track(item) == item.track

\* variant: the tracks of a page are taken in reverse
MapTracksReversed(items) ==
  [i \in 1..Len(items) |-> Track(items[Len(items) + 1 - i])]

\* items.map((item) => item.track)
MapTracks(items) == [i \in 1..Len(items) |-> Track(items[i])]

\* variant: the end index is taken as inclusive
SliceInclusive(list, from, to) == SubSeq(list, from + 1, Min(to + 1, Len(list)))

\* Array.prototype.slice(from, to) with 0-based from, exclusive to
Slice(list, from, to) == SubSeq(list, from + 1, Min(to, Len(list)))

RECURSIVE BatchesFrom(_, _, _)
\* for (let i = from; i < list.length; i += size) batches.push(list.slice(i, i + size))
BatchesFrom(list, size, from) ==
  IF from < Len(list)
  THEN <<Slice(list, from, from + size)>> \o BatchesFrom(list, size, from + size)
  ELSE << >>

Batches(list, size) == BatchesFrom(list, size, 0)

\* a ?? false
OrFalse(x) == IF x = "undefined" THEN "false" ELSE x

\* the request the operation passed to retryWithBackoff makes when invoked
OperationRequest(s) ==
  CASE s.call.name = "retryWithBackoff" ->
         ApiRequest("GET", RelativeUrl("/me/player", ""), << >>)
    [] s.call.name = "getLikedSongs" ->
         ApiRequest("GET", s.local.nextUrl[1], << >>)
    [] s.call.name = "getTrackDetails" ->
         ApiRequest("GET", RelativeUrl("/tracks?ids=", ""), s.local.batches[s.local.idx])
    [] s.call.name = "createPlaylist" ->
         ApiRequest("POST", RelativeUrl("/users/{userId}/playlists", s.local.userId),
                    <<s.call.arg.name, s.call.arg.description,
                      OrFalse(s.call.arg.public), OrFalse(s.call.arg.collaborative)>>)
    [] s.call.name = "addTracksToPlaylist" ->
         ApiRequest("POST", RelativeUrl("/playlists/{playlistId}/tracks",
                                        s.call.arg.playlistId),
                    s.local.batches[s.local.idx])

\* a call of this.httpClient: the request interceptor runs and the request leaves
Send(s, req, toks) ==
  [s EXCEPT !.pc = "wait", !.sent = Append(@, RequestInterceptor(req, toks))]

\* await operation()
Invoke(s, toks) ==
  Send([s EXCEPT !.retry.invoked = @ + 1], OperationRequest(s), toks)

\* variant: the last failure is wrapped in a new error before it is thrown
ThrowLastErrorWrapped(s) ==
  Reject(s, GenericError(s.retry.lastError.message, s.retry.lastError.id))

\* throw lastError!
ThrowLastError(s) == Reject(s, s.retry.lastError)

\* the call of retryWithBackoff up to its first await
RetryWithBackoff(s, options, toks) ==
  LET p == WithDefaults(options)
      s1 == [s EXCEPT !.applied = 0,
                      !.retry = [NoRetry EXCEPT !.running = TRUE,
                                                 !.maxRetries = p.maxRetries,
                                                 !.baseDelay = p.baseDelay,
                                                 !.maxDelay = p.maxDelay,
                                                 !.backoffFactor = p.backoffFactor]]
  IN IF LoopCondition(0, p.maxRetries) THEN Invoke(s1, toks) ELSE ThrowLastError(s1)

\* variant: the first failure is kept
CaughtKeepsFirst(lastError, error) == IF lastError = NoError THEN error ELSE lastError

\* lastError = error as Error
Caught(lastError, error) == error

\* variant: an authentication failure is thrown at once, not retried
RetryCatchNoAuthRetry(s, error, clock) ==
  LET s1 == [s EXCEPT !.retry.lastError = Caught(@, error)]
      delay == Delay(s.retry, s.retry.attempt)
  IN IF IsLastAttempt(s.retry.attempt, s.retry.maxRetries)
        \/ error.name = "AuthenticationError"
     THEN ThrowLastError(s1)
     ELSE [s1 EXCEPT !.pc = "sleep",
                     !.retry.delays = Append(@, delay),
                     !.retry.wakeAt = clock + delay]

\* the catch block: up to the break or the await of the timer
RetryCatch(s, error, clock) ==
  LET s1 == [s EXCEPT !.retry.lastError = Caught(@, error)]
      delay == Delay(s.retry, s.retry.attempt)
  IN IF IsLastAttempt(s.retry.attempt, s.retry.maxRetries)
     THEN ThrowLastError(s1)
     ELSE [s1 EXCEPT !.pc = "sleep",
                     !.retry.delays = Append(@, delay),
                     !.retry.wakeAt = clock + delay]

\* variant: the pre-flight check is made again before each further attempt
RetryWakeRechecking(s, toks) ==
  LET s1 == [s EXCEPT !.retry.attempt = @ + 1]
  IN IF s.call.name \in {"getLikedSongs", "getTrackDetails", "createPlaylist",
                         "addTracksToPlaylist"}
        /\ toks # None /\ NeedsRefresh(toks[1], now)
     THEN RefreshAccessToken(s1, toks)
     ELSE IF LoopCondition(s1.retry.attempt, s1.retry.maxRetries)
     THEN Invoke(s1, toks) ELSE ThrowLastError(s1)

\* variant: a further attempt goes on to the next chunk
RetryWakeSkipping(s, toks) ==
  LET s1 == [s EXCEPT !.retry.attempt = @ + 1,
                      !.local.idx = Min(@ + 1, Len(s.local.batches))]
  IN IF LoopCondition(s1.retry.attempt, s1.retry.maxRetries)
     THEN Invoke(s1, toks) ELSE ThrowLastError(s1)

\* variant: the timer's continuation never resumes the loop
RetryWakeStuck(s, toks) == s

\* the timer fired: attempt++ and the loop test
RetryWake(s, toks) ==
  LET s1 == [s EXCEPT !.retry.attempt = @ + 1]
  IN IF LoopCondition(s1.retry.attempt, s1.retry.maxRetries)
     THEN Invoke(s1, toks) ELSE ThrowLastError(s1)

(***************************************************************************)
(* The catalog operations.                                                 *)
(***************************************************************************)
\* variant: the cursor of the response is not taken over
NextUrlDropped(next) == None

\* data.next ? data.next.replace("https://api.spotify.com/v1", "") : null
NextUrl(next) ==
  IF next # None /\ next[1].origin \o next[1].path # ""
  THEN Some(IF next[1].origin = ApiOrigin THEN [next[1] EXCEPT !.origin = ""]
            ELSE next[1])
  ELSE None

\* while (nextUrl) { ... retryWithBackoff ... } return allSongs
PageLoop(s, toks) ==
  IF s.local.nextUrl # None
     /\ s.local.nextUrl[1].origin \o s.local.nextUrl[1].path # ""
  THEN RetryWithBackoff(s, [x \in {} |-> 0], toks)
  ELSE Resolve(s, s.local.allSongs)

\* variant: the request of the chunk after the next leaves together with it
BatchLoopParallel(s, toks, value) ==
  IF s.local.idx < Len(s.local.batches)
  THEN LET r == RetryWithBackoff([s EXCEPT !.local.idx = @ + 1], [x \in {} |-> 0], toks)
           r2 == [r EXCEPT !.local.idx = @ + 1]
       IN IF r.local.idx < Len(r.local.batches)
          THEN Send(r2, OperationRequest(r2), toks)
          ELSE r
  ELSE Resolve(s, value)

\* for (const batch of batches) { ... retryWithBackoff ... }: the next round
BatchLoop(s, toks, value) ==
  IF s.local.idx < Len(s.local.batches)
  THEN RetryWithBackoff([s EXCEPT !.local.idx = @ + 1], [x \in {} |-> 0], toks)
  ELSE Resolve(s, value)

\* the body of a catalog operation once its ensureValidToken has returned,
\* up to its first await
Body(s, toks) ==
  CASE s.call.name = "getLikedSongs" ->
         PageLoop([s EXCEPT !.local.allSongs = << >>,
                            !.local.nextUrl = Some(RelativeUrl(PagePaths[1], ""))],
                  toks)
    [] s.call.name = "getTrackDetails" ->
         BatchLoop([s EXCEPT !.local.batches = Batches(s.call.arg, TrackBatchSize),
                             !.local.allTracks = << >>],
                   toks, << >>)
    [] s.call.name = "createPlaylist" ->
         Send(s, ApiRequest("GET", RelativeUrl("/me", ""), << >>), toks)
    [] s.call.name = "addTracksToPlaylist" ->
         BatchLoop([s EXCEPT !.local.batches = Batches(s.call.arg.uris, UriBatchSize)],
                   toks, << >>)

\* what the operation does with the response the awaited call returned,
\* up to its next await
OnReturn(s, data, toks) ==
  CASE s.call.name = "retryWithBackoff" -> Resolve(s, data.value)
    [] s.call.name = "getLikedSongs" ->
         PageLoop([s EXCEPT !.local.allSongs = @ \o MapTracks(data.items),
                            !.local.nextUrl = NextUrl(data.next)],
                  toks)
    [] s.call.name = "getTrackDetails" ->
         LET s1 == [s EXCEPT !.local.allTracks = @ \o data.tracks]
         IN BatchLoop(s1, toks, s1.local.allTracks)
    [] s.call.name = "createPlaylist" ->
         IF ~s.retry.running
         THEN RetryWithBackoff([s EXCEPT !.local.userId = data.id],
                               [x \in {} |-> 0], toks)
         ELSE Resolve(s, <<data.id>>)
    [] s.call.name = "addTracksToPlaylist" -> BatchLoop(s, toks, << >>)

\* variant: the value of a successful attempt is not returned at once; the
\* loop goes on to its end
RetryReturnTriesAgain(s, data, toks) ==
  IF s.retry.attempt < s.retry.maxRetries
  THEN Invoke([s EXCEPT !.retry.attempt = @ + 1], toks)
  ELSE OnReturn(s, data, toks)

\* return await operation(): the caller of retryWithBackoff goes on with the value
RetryReturn(s, data, toks) == OnReturn(s, data, toks)

\* variant: a chunk whose retries are exhausted is skipped and the loop goes
\* on with the next chunk
OnThrowNextChunk(s, error, clock) ==
  IF s.retry.running
  THEN LET r == RetryCatch(s, error, clock)
       IN IF r.pc = "done" /\ s.call.name = "addTracksToPlaylist"
          THEN BatchLoop(s, tokens, << >>)
          ELSE r
  ELSE Reject(s, error)

\* variant: the request for the current user is sent again when it fails
OnThrowAsksAgain(s, error, clock) ==
  IF s.retry.running THEN RetryCatch(s, error, clock)
  ELSE IF s.call.name = "createPlaylist" /\ Len(s.sent) < 3
  THEN Send(s, ApiRequest("GET", RelativeUrl("/me", ""), << >>), tokens)
  ELSE Reject(s, error)

\* the awaited call threw: inside retryWithBackoff its catch block runs,
\* elsewhere the operation rejects
OnThrow(s, error, clock) ==
  IF s.retry.running THEN RetryCatch(s, error, clock) ELSE Reject(s, error)

Ids(n) == [i \in 1..n |-> i]

TrackIdLists == {Ids(n) : n \in {0, 50, 51, 101}}
UriLists == {Ids(n) : n \in {0, 100, 101}}
PlaylistRequests ==
  {[name |-> "Road trip", description |-> "", public |-> pu, collaborative |-> co] :
     pu \in {"undefined", "true"}, co \in {"undefined"}}

StartCatalog(t, name, arg) ==
  /\ CanStart(t) /\ Started(t)
  /\ Put(t, EnsureValidToken(Begin(name, arg), tokens, now))
  /\ UNCHANGED <<tokens, now, ticks, issued, active>>

GetLikedSongs(t) == \E lib \in Libraries : StartCatalog(t, "getLikedSongs", lib)
GetTrackDetails(t) == \E ids \in TrackIdLists : StartCatalog(t, "getTrackDetails", ids)
CreatePlaylist(t) == \E r \in PlaylistRequests : StartCatalog(t, "createPlaylist", r)
AddTracksToPlaylist(t) ==
  \E u \in UriLists :
    StartCatalog(t, "addTracksToPlaylist", [playlistId |-> "playlist_1", uris |-> u])

\* a direct call of retryWithBackoff with a caller-supplied policy
CallRetryWithBackoff(t) ==
  /\ CanStart(t) /\ Started(t)
  /\ \E options \in RetryOptionSets :
       Put(t, RetryWithBackoff(Begin("retryWithBackoff", options), options, tokens))
  /\ UNCHANGED <<tokens, now, ticks, issued, active>>

\* ensureValidToken has returned: the operation's body starts
Proceed(t) ==
  /\ pc(t) = "ensured"
  /\ Put(t, Body(task[t], tokens))
  /\ UNCHANGED <<tokens, now, ticks, issued, called, active>>

\* the service carries out the request in flight: a POST of createPlaylist
\* creates a playlist, a POST of addTracksToPlaylist inserts the chunk
Served(s) ==
  IF InFlight(s).method = "POST"
     /\ s.call.name \in {"createPlaylist", "addTracksToPlaylist"}
  THEN [s EXCEPT !.applied = @ + 1] ELSE s

\* whether the service has carried out a request that failed on the client's
\* side: not when it answered with an error status or the request was never
\* sent; when the client gave up waiting (timeout: 10000) it may or may not
Landed(raw) ==
  IF ~raw.response.present /\ raw.request THEN {TRUE, FALSE} ELSE {FALSE}

\* variant: a 401 from the resource API signs the session out
ResponseSigningOut(t) ==
  /\ pc(t) = "wait"
  /\ \/ /\ \E d \in SuccessData(task[t]) :
            Put(t, IF task[t].retry.running
                   THEN RetryReturn(task[t], d, tokens)
                   ELSE OnReturn(task[t], d, tokens))
        /\ UNCHANGED tokens
     \/ \E raw \in RawFailures :
          LET e == Classify(raw, ReqId(task[t]))
          IN /\ Put(t, OnThrow([task[t] EXCEPT !.raw = raw, !.thrown = e], e, now))
             /\ tokens' = IF e.name = "AuthenticationError" THEN None ELSE tokens
  /\ UNCHANGED <<now, ticks, issued, called, active>>

\* the transport settles the request in flight: a 2xx response passes the
\* response interceptor unchanged, any failure is thrown as classified
Response(t) ==
  /\ pc(t) = "wait"
  /\ \/ \E d \in SuccessData(task[t]) :
          Put(t, IF task[t].retry.running
                 THEN RetryReturn(Served(task[t]), d, tokens)
                 ELSE OnReturn(Served(task[t]), d, tokens))
     \/ \E raw \in RawFailures : \E landed \in Landed(raw) :
          LET e == Classify(raw, ReqId(task[t]))
              s == IF landed THEN Served(task[t]) ELSE task[t]
          IN Put(t, OnThrow([s EXCEPT !.raw = raw, !.thrown = e], e, now))
  /\ UNCHANGED <<tokens, now, ticks, issued, called, active>>

\* the backoff timer fires, not before its delay has passed
Wake(t) ==
  /\ pc(t) = "sleep"
  /\ now' = Max(now, task[t].retry.wakeAt)
  /\ Put(t, RetryWake(task[t], tokens))
  /\ UNCHANGED <<tokens, ticks, issued, called, active>>

Next ==
  \/ Tick
  \/ \E t \in Tasks :
       \/ SetTokens(t)
       \/ GenerateAuthUrl(t)
       \/ StartExchange(t)
       \/ ExchangeResponse(t)
       \/ StartRefresh(t)
       \/ RefreshResponse(t)
       \/ GetLikedSongs(t)
       \/ GetTrackDetails(t)
       \/ CreatePlaylist(t)
       \/ AddTracksToPlaylist(t)
       \/ CallRetryWithBackoff(t)
       \/ Proceed(t)
       \/ Response(t)
       \/ Wake(t)
       \/ Return(t)

Spec == Init /\ [][Next]_vars

\* the step that a suspended call is waiting for; its position decides which
Progress(t) ==
  \/ Response(t)
  \/ RefreshResponse(t)
  \/ ExchangeResponse(t)
  \/ Wake(t)
  \/ Proceed(t)

\* every transport call returns, every timer fires, every continuation runs
Fairness == \A t \in Tasks : WF_vars(Progress(t))

\* a host that restores a session and fetches the liked songs, its calls
\* returning and its timers firing; the clock advances with the timers
LikedSongsNext ==
  \E t \in Tasks :
    \/ SetTokens(t)
    \/ GetLikedSongs(t)
    \/ RefreshResponse(t)
    \/ Proceed(t)
    \/ Response(t)
    \/ Wake(t)
    \/ Return(t)

LikedSongsSpec == Init /\ [][LikedSongsNext]_vars /\ Fairness

\* a host that restores a session and makes a retried or batched call, its
\* transport calls returning and its timers firing
BatchedNext ==
  \E t \in Tasks :
    \/ SetTokens(t)
    \/ CallRetryWithBackoff(t)
    \/ GetTrackDetails(t)
    \/ CreatePlaylist(t)
    \/ AddTracksToPlaylist(t)
    \/ RefreshResponse(t)
    \/ Proceed(t)
    \/ Response(t)
    \/ Wake(t)
    \/ Return(t)

BatchedSpec == Init /\ [][BatchedNext]_vars /\ Fairness

\* a host with two logical tasks
InitTwo == InitCommon /\ active = Tasks

\* the host restores the session before its first call, and takes the
\* result of a call before it makes the next one
Awaited ==
  /\ tokens' # tokens /\ task' = task => called = {}
  /\ \A t \in Tasks :
       (task[t].pc = "idle" /\ task'[t].pc # "idle") =>
         /\ \A u \in Tasks \ {t} : task[u].pc = "idle"
         /\ \A u \in Tasks : u < t => u \in called

\* a host that fetches the liked songs, and fetches them again after the
\* first call has settled
RepeatNext == LikedSongsNext /\ Awaited

RepeatSpec == InitTwo /\ [][RepeatNext]_vars

\* a host whose two tasks sign in, restore, refresh and start a catalog
\* operation in any interleaving, up to the operation's first request
ConcurrentNext ==
  \E t \in Tasks :
    \/ SetTokens(t)
    \/ StartExchange(t)
    \/ ExchangeResponse(t)
    \/ StartRefresh(t)
    \/ RefreshResponse(t)
    \/ CreatePlaylist(t)
    \/ Proceed(t)

ConcurrentSpec == InitTwo /\ [][ConcurrentNext]_vars

(***************************************************************************)
(* Vocabulary of the properties.                                           *)
(***************************************************************************)
CatalogNames ==
  {"getLikedSongs", "getTrackDetails", "createPlaylist", "addTracksToPlaylist"}

TokenRequests(s) == {i \in 1..Len(s.sent) : s.sent[i].endpoint = "token"}
ApiRequests(s) == {i \in 1..Len(s.sent) : s.sent[i].endpoint = "api"}

\* retryWithBackoff has thrown: the call it served is rejected
Exhausted(s) == s.retry.running /\ s.pc = "done" /\ s.result.state = "rejected"

IsDefaultPolicy(r) ==
  r.maxRetries = 3 /\ r.baseDelay = 1000 /\ r.maxDelay = 10000 /\ r.backoffFactor = 2

\* task t starts a catalog operation in this step
StartsCatalog(t) ==
  task[t].pc = "idle" /\ task'[t].pc # "idle" /\ task'[t].call.name \in CatalogNames

\* the transport throws for task t in this step
Throws(t) == task[t].pc = "wait" /\ task'[t].thrown # task[t].thrown

IsNumeral(text) == text # << >> /\ \A i \in 1..Len(text) : IsDigit(text[i])

(***************************************************************************)
(* C1: with maxRetries >= 0, retryWithBackoff invokes the operation at     *)
(* most maxRetries + 1 times, and exactly maxRetries + 1 times when every  *)
(* attempt fails (4 times with the default policy); every invocation of a  *)
(* direct call is one request sent.                                        *)
(***************************************************************************)
C1_AttemptsBounded ==
  \A t \in Tasks :
    LET s == task[t] IN
    (s.retry.running /\ s.retry.maxRetries >= 0) =>
      /\ s.retry.invoked <= s.retry.maxRetries + 1
      /\ (s.call.name = "retryWithBackoff" => s.retry.invoked = Len(s.sent))
      /\ (Exhausted(s) => s.retry.invoked = s.retry.maxRetries + 1)
      /\ (Exhausted(s) /\ IsDefaultPolicy(s.retry) => s.retry.invoked = 4)

C1_Witness ==
  \E t \in Tasks :
    /\ Exhausted(task[t]) /\ IsDefaultPolicy(task[t].retry)
    /\ task[t].call.name = "retryWithBackoff" /\ Len(task[t].sent) = 4

C3_SuccessReturnsAtOnce ==
  \A t \in Tasks :
    LET s == task[t] IN
    (s.call.name = "retryWithBackoff" /\ s.result.state = "fulfilled") =>
      /\ s.pc = "done"
      /\ s.result.value = <<Len(s.sent)>>
      /\ s.retry.invoked = Len(s.sent)
      /\ s.retry.attempt = Len(s.sent) - 1
      /\ Len(s.retry.delays) = Len(s.sent) - 1

C3_Witness ==
  \E t \in Tasks :
    /\ task[t].call.name = "retryWithBackoff" /\ task[t].result.state = "fulfilled"
    /\ Len(task[t].sent) >= 2 /\ task[t].thrown # NoError

(***************************************************************************)
(* C4: when all maxRetries + 1 attempts fail, retryWithBackoff throws the  *)
(* error that the final attempt raised, the very object.                   *)
(***************************************************************************)
C4_LastFailureVerbatim ==
  \A t \in Tasks :
    LET s == task[t] IN
    (Exhausted(s) /\ s.retry.maxRetries >= 0) =>
      /\ s.result.error = s.thrown
      /\ s.thrown.id = Len(s.sent)
      /\ s.retry.lastError = s.thrown

C4_Witness ==
  \E t \in Tasks :
    /\ Exhausted(task[t]) /\ task[t].retry.invoked >= 3
    /\ task[t].result.error.name = "RateLimitError"

C7_Original ==
  \A t \in Tasks :
    task[t].thrown # NoError => task[t].thrown.name \in TypedFailureNames

(***************************************************************************)
(* C7 amended: every failure the transport raises is one of the four typed *)
(* kinds when a response came or the request was sent, and a plain Error   *)
(* with the original message when the request could not be set up; the     *)
(* failed request leaves its call suspended for a retry or rejected with   *)
(* that error, never fulfilled.                                            *)
(***************************************************************************)
C7_Amended ==
  \A t \in Tasks :
    LET s == task[t] IN
    s.thrown # NoError =>
      /\ IF s.raw.response.present \/ s.raw.request
         THEN s.thrown.name \in TypedFailureNames
         ELSE s.thrown.name = "Error" /\ s.thrown.message = s.raw.message
      /\ s.thrown.id = Len(s.sent) =>
           /\ s.pc \in {"sleep", "done"}
           /\ s.pc = "done" => s.result = Rejected(s.thrown)

C7_Witness ==
  \E t \in Tasks :
    /\ task[t].pc = "done" /\ task[t].result.state = "rejected"
    /\ task[t].result.error.name = "Error"
    /\ task[t].call.name = "createPlaylist"

(***************************************************************************)
(* C8 as stated: a catalog operation started with a snapshot stored sends  *)
(* one refresh request when the expiry is <= now + 5 minutes and none when *)
(* it is later.                                                            *)
(***************************************************************************)
C8_Original ==
  [][\A t \in Tasks :
       (StartsCatalog(t) /\ tokens # None) =>
         Cardinality(TokenRequests(task'[t])) =
           IF tokens[1].expires_at <= now + 300000 THEN 1 ELSE 0]_vars

(***************************************************************************)
(* C8 amended: a catalog operation started with a snapshot stored sends    *)
(* one refresh request when the expiry is <= now + 5 minutes (boundary     *)
(* included) and the snapshot holds a refresh token, and none when the     *)
(* expiry is later or the snapshot holds no refresh token; the operation   *)
(* sends no other request to the token endpoint.                           *)
(***************************************************************************)
C8_Amended ==
  /\ [][\A t \in Tasks :
          (StartsCatalog(t) /\ tokens # None) =>
            Cardinality(TokenRequests(task'[t])) =
              IF tokens[1].expires_at <= now + 300000 /\ tokens[1].refresh_token # 0
              THEN 1 ELSE 0]_vars
  /\ [][\A t \in Tasks :
          task[t].pc \notin {"idle", "done"} =>
            TokenRequests(task'[t]) = TokenRequests(task[t])]_vars

C8_Witness ==
  \E t \in Tasks :
    /\ task[t].call.name \in CatalogNames /\ task[t].pc = "refresh_wait"
    /\ tokens # None /\ tokens[1].expires_at = now + 300000
    /\ Cardinality(TokenRequests(task[t])) = 1

(***************************************************************************)
(* C9: a catalog operation started with no snapshot stored is rejected at  *)
(* once with AuthenticationError("Not authenticated"), has sent no request *)
(* and leaves Token State absent.                                          *)
(***************************************************************************)
C9_NotAuthenticated ==
  [][\A t \in Tasks :
       (StartsCatalog(t) /\ tokens = None) =>
         /\ task'[t].pc = "done"
         /\ task'[t].result.state = "rejected"
         /\ task'[t].result.error.name = "AuthenticationError"
         /\ task'[t].result.error.message = "Not authenticated"
         /\ task'[t].sent = << >>
         /\ tokens' = None]_vars

C9_Witness ==
  \E t \in Tasks :
    /\ task[t].call.name = "addTracksToPlaylist" /\ task[t].pc = "done"
    /\ task[t].result.error.message = "Not authenticated"
    /\ tokens = None

(***************************************************************************)
(* C10: a catalog operation has sent a request to the resource API only    *)
(* after its ensureValidToken returned, and every request to the token     *)
(* endpoint precedes them; while ensureValidToken is pending no resource   *)
(* request is out; when it failed the operation has sent none and is       *)
(* rejected with the failure of ensureValidToken.                          *)
(***************************************************************************)
C10_PreflightFirst ==
  \A t \in Tasks :
    LET s == task[t] IN
    s.call.name \in CatalogNames =>
      /\ ApiRequests(s) # {} => s.preflight.status = "ok"
      /\ \A i \in ApiRequests(s) : \A j \in TokenRequests(s) : j < i
      /\ s.preflight.status = "pending" => s.pc = "refresh_wait" /\ ApiRequests(s) = {}
      /\ s.preflight.status = "failed" =>
           /\ ApiRequests(s) = {}
           /\ s.pc = "done"
           /\ s.result = Rejected(s.preflight.error)
           /\ s.result.error.name = "AuthenticationError"
      /\ s.preflight.status \in {"pending", "ok", "failed"}

C10_Witness ==
  \E t \in Tasks :
    /\ task[t].call.name = "getLikedSongs"
    /\ Len(task[t].sent) >= 2
    /\ task[t].sent[1].endpoint = "token" /\ task[t].sent[2].endpoint = "api"
    /\ task[t].sent[2].auth = tokens[1].access_token

(***************************************************************************)
(* Vocabulary of the session properties.                                   *)
(***************************************************************************)
\* task t starts a public call of refreshAccessToken in this step
StartsRefresh(t) ==
  task[t].pc = "idle" /\ task'[t].pc # "idle"
  /\ task'[t].call.name = "refreshAccessToken"

\* the token endpoint answers task t's request with success in this step
TokenSuccess(t) ==
  task[t].pc \in {"refresh_wait", "exchange_wait"}
  /\ task'[t].tokenData # task[t].tokenData

\* the token request of task t fails in this step
TokenFailure(t) ==
  task[t].pc \in {"refresh_wait", "exchange_wait"}
  /\ task'[t].pc = "done" /\ task'[t].result.state = "rejected"

(***************************************************************************)
(* C11: refreshAccessToken called with no snapshot stored, or with a       *)
(* snapshot whose refresh token is empty, is rejected in the same step     *)
(* with AuthenticationError("No refresh token available"), has sent no     *)
(* request and leaves Token State as it was; the same when it is the       *)
(* pre-flight of a catalog operation that calls it.                        *)
(***************************************************************************)
C11_RefreshWithoutToken ==
  [][\A t \in Tasks :
       LET n == task'[t] IN
       (\/ StartsRefresh(t) /\ (tokens = None \/ tokens[1].refresh_token = 0)
        \/ StartsCatalog(t) /\ tokens # None /\ tokens[1].refresh_token = 0
             /\ tokens[1].expires_at <= now + 300000) =>
         /\ n.pc = "done" /\ n.result.state = "rejected"
         /\ n.result.error.name = "AuthenticationError"
         /\ n.result.error.status = 401
         /\ n.result.error.message = "No refresh token available"
         /\ n.sent = << >>
         /\ tokens' = tokens]_vars

C11_Witness ==
  \E t \in Tasks :
    /\ task[t].call.name = "refreshAccessToken" /\ task[t].pc = "done"
    /\ task[t].result.error.message = "No refresh token available"
    /\ tokens # None /\ tokens[1].refresh_token = 0
    /\ task[t].sent = << >>

(***************************************************************************)
(* C12: when the token endpoint answers a refresh request with success,    *)
(* the stored snapshot becomes the one before with its access token        *)
(* replaced by the returned one and its expiry by now + the returned       *)
(* lifetime in seconds; refresh token, scope and token kind stay (also     *)
(* when the response carries a refresh token); a public call of            *)
(* refreshAccessToken is fulfilled with the new access token.              *)
(***************************************************************************)
C12_RefreshReplacesAccessAndExpiry ==
  [][\A t \in Tasks :
       LET s == task[t]
           n == task'[t]
           d == task'[t].tokenData
       IN (TokenSuccess(t) /\ s.pc = "refresh_wait" /\ tokens # None) =>
            /\ tokens' # None
            /\ tokens'[1].access_token = d.access_token
            /\ tokens'[1].access_token # tokens[1].access_token
            /\ tokens'[1].expires_at = now + d.expires_in * 1000
            /\ tokens'[1].refresh_token = tokens[1].refresh_token
            /\ tokens'[1].scope = tokens[1].scope
            /\ tokens'[1].token_type = tokens[1].token_type
            /\ tokens'[1].expires_in = tokens[1].expires_in
            /\ DOMAIN tokens'[1] = DOMAIN tokens[1]
            /\ (s.call.name = "refreshAccessToken" =>
                  n.pc = "done" /\ n.result = Fulfilled(<<d.access_token>>))]_vars

C12_Witness ==
  \E t \in Tasks :
    /\ task[t].call.name = "refreshAccessToken" /\ task[t].result.state = "fulfilled"
    /\ task[t].tokenData.refresh_token = 202 /\ task[t].tokenData.expires_in = 300
    /\ tokens # None /\ tokens[1].refresh_token = 201
    /\ task[t].result.value = <<tokens[1].access_token>>

(***************************************************************************)
(* C13: when the refresh request fails, the call is rejected with an       *)
(* AuthenticationError (the server's description, or "Token refresh        *)
(* failed") and the stored snapshot is left as it is; nothing writes Token *)
(* State while the request is in flight, so the snapshot is the one of     *)
(* before the call and the session stays authenticated.                    *)
(***************************************************************************)
C13_RefreshFailureKeepsSnapshot ==
  /\ [][\A t \in Tasks :
          (TokenFailure(t) /\ task[t].pc = "refresh_wait") =>
            /\ task'[t].result.error.name = "AuthenticationError"
            /\ task'[t].result.error.message \in
                 {"Token refresh failed"} \cup (TokenFailures \ {""})
            /\ tokens' = tokens
            /\ tokens' # None
            /\ IsAuthenticated']_vars
  /\ [][\A t \in Tasks :
          (task[t].pc = "refresh_wait" /\ task'[t].pc = "refresh_wait") =>
            tokens' = tokens]_vars

C13_Witness ==
  \E t \in Tasks :
    /\ task[t].call.name = "refreshAccessToken" /\ task[t].pc = "done"
    /\ task[t].result.error.message = "Token refresh failed"
    /\ tokens # None /\ tokens[1].access_token = 101 /\ tokens[1].refresh_token = 201

(***************************************************************************)
(* C14: when the token endpoint answers the exchange request with success, *)
(* the stored snapshot holds the returned access token, refresh token,     *)
(* token kind, scope and lifetime, with expiry = now + lifetime seconds;   *)
(* the call is fulfilled with that snapshot and isAuthenticated() is true. *)
(***************************************************************************)
C14_ExchangeStoresSnapshot ==
  [][\A t \in Tasks :
       LET n == task'[t]
           d == task'[t].tokenData
       IN (TokenSuccess(t) /\ task[t].pc = "exchange_wait") =>
            /\ tokens' # None
            /\ tokens'[1].access_token = d.access_token
            /\ tokens'[1].refresh_token = d.refresh_token
            /\ tokens'[1].token_type = d.token_type
            /\ tokens'[1].scope = d.scope
            /\ tokens'[1].expires_in = d.expires_in
            /\ tokens'[1].expires_at = now + d.expires_in * 1000
            /\ n.pc = "done" /\ n.result = Fulfilled(<<tokens'[1]>>)
            /\ IsAuthenticated'
            /\ GetTokens' = Some(n.result.value[1])]_vars

C14_Witness ==
  \E t \in Tasks :
    /\ task[t].call.name = "exchangeCodeForToken" /\ task[t].result.state = "fulfilled"
    /\ tokens = Some(task[t].result.value[1])
    /\ tokens[1].expires_at = now + 3600 * 1000
    /\ tokens[1].access_token = task[t].tokenData.access_token
    /\ IsAuthenticated

(***************************************************************************)
(* C15: when the exchange request fails, the call is rejected with an      *)
(* AuthenticationError (the server's description, or "Token exchange       *)
(* failed") and Token State is left as it is: absent stays absent, a       *)
(* stored snapshot stays the same; nothing writes Token State while the    *)
(* request is in flight.                                                   *)
(***************************************************************************)
C15_ExchangeFailureKeepsState ==
  /\ [][\A t \in Tasks :
          (TokenFailure(t) /\ task[t].pc = "exchange_wait") =>
            /\ task'[t].result.error.name = "AuthenticationError"
            /\ task'[t].result.error.message \in
                 {"Token exchange failed"} \cup (TokenFailures \ {""})
            /\ tokens' = tokens
            /\ IsAuthenticated' = IsAuthenticated]_vars
  /\ [][\A t \in Tasks :
          (task[t].pc = "exchange_wait" /\ task'[t].pc = "exchange_wait") =>
            tokens' = tokens]_vars

C15_Witness ==
  \E t \in Tasks :
    /\ task[t].call.name = "exchangeCodeForToken" /\ task[t].pc = "done"
    /\ task[t].result.error.name = "AuthenticationError"
    /\ task[t].result.error.message = "Invalid refresh token"
    /\ tokens # None /\ tokens[1].access_token = 101

(***************************************************************************)
(* C16: in every reachable state isAuthenticated() is true exactly when a  *)
(* snapshot is stored, expired or not, and getTokens() is the stored       *)
(* snapshot; a step of setTokens(s) makes s the stored snapshot, whatever  *)
(* was stored before.                                                      *)
(***************************************************************************)
C16_AuthenticatedIffStored ==
  /\ [](/\ IsAuthenticated = (tokens # None)
        /\ GetTokens = tokens
        /\ (tokens # None /\ tokens[1].expires_at <= now => IsAuthenticated))
  /\ [][(tokens' # tokens /\ task' = task) =>
          /\ \E s \in StoredSnapshots : GetTokens' = Some(s)
          /\ IsAuthenticated']_vars

C16_Witness ==
  /\ tokens # None /\ tokens[1].expires_at < now
  /\ IsAuthenticated /\ GetTokens = tokens
  /\ \E t \in Tasks : task[t].pc = "idle"

(***************************************************************************)
(* C17: every request that goes out to the resource API while a snapshot   *)
(* is stored carries the access token stored at the moment it is sent (and *)
(* no credential when none is stored); so after the refresh of its         *)
(* pre-flight every request of a catalog operation, retry attempts         *)
(* included, carries the refreshed token.  Requests to the token endpoint  *)
(* do not pass the interceptor.                                            *)
(***************************************************************************)
C17_BearerIsCurrentToken ==
  /\ [][\A t \in Tasks :
          LET s == task[t]
              n == task'[t]
          IN (Len(n.sent) = Len(s.sent) + 1 /\ InFlight(n).endpoint = "api") =>
               /\ tokens' = tokens
               /\ IF tokens # None
                  THEN InFlight(n).auth = tokens[1].access_token
                  ELSE InFlight(n).auth = NoAuth]_vars
  /\ [](\A t \in Tasks :
          LET s == task[t] IN
          /\ (s.call.name \in CatalogNames /\ s.tokenData # NoTokenData) =>
               \A i \in ApiRequests(s) :
                 /\ s.sent[i].auth = s.tokenData.access_token
                 /\ s.sent[i].auth = tokens[1].access_token
          /\ \A i \in TokenRequests(s) : s.sent[i].auth = NoAuth)

C17_Witness ==
  \E t \in Tasks :
    /\ task[t].call.name = "getTrackDetails" /\ task[t].retry.attempt >= 1
    /\ task[t].tokenData # NoTokenData /\ Len(task[t].sent) >= 3
    /\ InFlight(task[t]).endpoint = "api"
    /\ InFlight(task[t]).auth = task[t].tokenData.access_token
    /\ InFlight(task[t]).auth # 101

(***************************************************************************)
(* Vocabulary of the catalog properties.                                   *)
(***************************************************************************)
\* the requests a call has sent to the resource API, in order
ApiSent(s) == SelectSeq(s.sent, LAMBDA r : r.endpoint = "api")

RECURSIVE Runs(_)
\* a sequence with each run of equal neighbours taken once: the requests of
\* a call without the repetitions its retries made
Runs(seq) ==
  IF Len(seq) <= 1 THEN seq
  ELSE IF seq[1] = seq[2] THEN Runs(Tail(seq))
  ELSE <<seq[1]>> \o Runs(Tail(seq))

RECURSIVE Concat(_)
Concat(seqs) == IF seqs = << >> THEN << >> ELSE Head(seqs) \o Concat(Tail(seqs))

\* the tracks of the pages of a library, page after page
TracksOf(pages) ==
  Concat([k \in 1..Len(pages) |->
            [i \in 1..Len(pages[k]) |-> pages[k][i].track]])

\* the resource API answers task t's request with success in this step
ApiSuccess(t) ==
  task[t].pc = "wait" /\ task'[t] # task[t] /\ task'[t].thrown = task[t].thrown

(***************************************************************************)
(* C18: a fulfilled getLikedSongs() returns the tracks of the pages        *)
(* p1..pn the server holds, page after page and in the order delivered;    *)
(* apart from retries it has requested exactly n pages, the first at       *)
(* /me/tracks?limit=50 and the k-th at the cursor of page k-1 with the API *)
(* origin stripped; all of them are GET requests.                          *)
(***************************************************************************)
C18_LikedSongsInOrder ==
  \A t \in Tasks :
    LET s == task[t]
        pages == s.call.arg
        urls == [i \in 1..Len(ApiSent(s)) |-> ApiSent(s)[i].url]
    IN (s.call.name = "getLikedSongs" /\ s.result.state = "fulfilled") =>
         /\ s.result.value = TracksOf(pages)
         /\ Len(Runs(urls)) = Len(pages)
         /\ Runs(urls)[1] = RelativeUrl("/me/tracks?limit=50", "")
         /\ \A k \in 2..Len(pages) :
              /\ PageData(pages, k - 1).next # None
              /\ Runs(urls)[k] =
                   [PageData(pages, k - 1).next[1] EXCEPT !.origin = ""]
              /\ PageData(pages, k - 1).next[1].origin = ApiOrigin
         /\ PageData(pages, Len(pages)).next = None
         /\ \A i \in 1..Len(ApiSent(s)) : ApiSent(s)[i].method = "GET"

C18_Witness ==
  \E t \in Tasks :
    /\ task[t].call.name = "getLikedSongs" /\ task[t].result.state = "fulfilled"
    /\ Len(task[t].call.arg) = 3
    /\ task[t].result.value = <<1, 2, 3>>
    /\ Len(ApiSent(task[t])) > 3

(***************************************************************************)
(* C19: when a page response of getLikedSongs() carries no next cursor the *)
(* call returns in that step without a further request; when it carries    *)
(* one, the call requests exactly that page next; and, every transport     *)
(* call returning and every timer firing, a getLikedSongs() call over a    *)
(* finite page chain comes to its end.                                     *)
(***************************************************************************)
C19_StopsAtLastPage ==
  /\ [][\A t \in Tasks :
          LET s == task[t]
              n == task'[t]
              k == PageIndex(InFlight(task[t]).url)
          IN (s.call.name = "getLikedSongs" /\ ApiSuccess(t)) =>
               /\ k \in 1..Len(s.call.arg)
               /\ IF PageData(s.call.arg, k).next # None
                  THEN /\ n.pc = "wait"
                       /\ Len(n.sent) = Len(s.sent) + 1
                       /\ PageIndex(InFlight(n).url) = k + 1
                       /\ n.retry.attempt = 0
                  ELSE /\ n.pc = "done" /\ n.result.state = "fulfilled"
                       /\ n.sent = s.sent]_vars
  /\ \A t \in Tasks :
       (task[t].call.name = "getLikedSongs") ~> (task[t].pc = "done")

C19_Witness ==
  \E t \in Tasks :
    /\ task[t].call.name = "getLikedSongs" /\ task[t].pc = "done"
    /\ task[t].result.state = "fulfilled"
    /\ Len(task[t].call.arg) = 2 /\ Len(ApiSent(task[t])) = 2

(***************************************************************************)
(* C20: the requests of getTrackDetails(ids), apart from retries, are the  *)
(* chunks ids[50(j-1)+1 .. min(50j, L)] in order, each of 1..50 ids; a     *)
(* fulfilled call has requested ceil(L/50) chunks, which together are ids, *)
(* and returns the chunks' results in that order; for L = 0 it sends no    *)
(* request and returns the empty list.                                     *)
(***************************************************************************)
C20_TrackDetailsChunks ==
  \A t \in Tasks :
    LET s == task[t]
        ids == s.call.arg
        L == Len(s.call.arg)
        chunks == Runs([i \in 1..Len(ApiSent(s)) |-> ApiSent(s)[i].payload])
    IN s.call.name = "getTrackDetails" =>
         /\ Len(chunks) <= (L + 49) \div 50
         /\ \A j \in 1..Len(chunks) :
              /\ chunks[j] = SubSeq(ids, 50 * (j - 1) + 1, Min(50 * j, L))
              /\ Len(chunks[j]) \in 1..50
         /\ s.result.state = "fulfilled" =>
              /\ Len(chunks) = (L + 49) \div 50
              /\ Concat(chunks) = ids
              /\ s.result.value = Concat(chunks)
              /\ L = 0 => ApiSent(s) = << >> /\ s.result.value = << >>

C20_Witness ==
  \E t \in Tasks :
    /\ task[t].call.name = "getTrackDetails" /\ task[t].result.state = "fulfilled"
    /\ Len(task[t].call.arg) = 101
    /\ Len(ApiSent(task[t])) > 3
    /\ Len(InFlight(task[t]).payload) = 1

(***************************************************************************)
(* C21: the requests of addTracksToPlaylist(playlistId, uris), apart from  *)
(* retries, are the chunks uris[100(j-1)+1 .. min(100j, L)] in index       *)
(* order, each of 1..100 URIs and each posted to the playlist's tracks;    *)
(* the first request of a later chunk is sent only when the request before *)
(* it has succeeded; a call rejected after its pre-flight has exhausted    *)
(* the retries of its last chunk and rejects with the failure of the last  *)
(* request, no later chunk having been requested; a fulfilled call has     *)
(* requested all ceil(L/100) chunks and its last request has succeeded.    *)
(***************************************************************************)
C21_AddTracksChunks ==
  \A t \in Tasks :
    LET s == task[t]
        uris == s.call.arg.uris
        L == Len(s.call.arg.uris)
        chunks == Runs([i \in 1..Len(ApiSent(s)) |-> ApiSent(s)[i].payload])
    IN s.call.name = "addTracksToPlaylist" =>
         /\ Len(chunks) <= (L + 99) \div 100
         /\ \A j \in 1..Len(chunks) :
              /\ chunks[j] = SubSeq(uris, 100 * (j - 1) + 1, Min(100 * j, L))
              /\ Len(chunks[j]) \in 1..100
         /\ \A i \in ApiRequests(s) :
              /\ s.sent[i].method = "POST"
              /\ s.sent[i].url = RelativeUrl("/playlists/{playlistId}/tracks",
                                             s.call.arg.playlistId)
         /\ Len(chunks) = s.local.idx
         /\ (s.pc = "wait" /\ s.retry.invoked = 1 /\ s.local.idx > 1) =>
              s.thrown.id # Len(s.sent) - 1
         /\ (s.result.state = "rejected" /\ s.preflight.status = "ok") =>
              /\ Exhausted(s)
              /\ s.retry.invoked = s.retry.maxRetries + 1
              /\ s.result.error = s.thrown
              /\ s.thrown.id = Len(s.sent)
              /\ InFlight(s).payload = chunks[Len(chunks)]
         /\ s.result.state = "fulfilled" =>
              /\ Len(chunks) = (L + 99) \div 100
              /\ Concat(chunks) = uris
              /\ s.sent # << >> => s.thrown.id # Len(s.sent)

C21_Witness ==
  \E t \in Tasks :
    LET s == task[t] IN
      /\ s.call.name = "addTracksToPlaylist" /\ s.result.state = "rejected"
      /\ Len(s.call.arg.uris) = 101
      /\ Len(ApiSent(s)) = 4
      /\ s.local.idx = 1
      /\ Len(InFlight(s).payload) = 100

(***************************************************************************)
(* C22: createPlaylist sends GET /me once, as its first request and        *)
(* outside the retrier; when that request fails the call rejects with its  *)
(* failure and no creation request is sent; when it succeeds every later   *)
(* request is the creation POST to /users/{id}/playlists of the id it      *)
(* returned, sent by the retrier at most maxRetries + 1 = 4 times.         *)
(***************************************************************************)
C22_CreatePlaylistRequests ==
  \A t \in Tasks :
    LET s == task[t]
        api == ApiSent(s)
        me == ApiRequest("GET", RelativeUrl("/me", ""), << >>)
    IN s.call.name = "createPlaylist" =>
         /\ api # << >> =>
              /\ api[1].method = me.method /\ api[1].url = me.url
              /\ api[1].payload = me.payload
         /\ \A i \in 2..Len(api) :
              /\ s.retry.running
              /\ s.local.userId \in UserIds
              /\ api[i].method = "POST"
              /\ api[i].url = RelativeUrl("/users/{userId}/playlists", s.local.userId)
         /\ ~s.retry.running => /\ Len(api) <= 1 /\ s.local.userId = ""
         /\ s.retry.running =>
              /\ Len(api) = 1 + s.retry.invoked
              /\ s.retry.invoked \in 1..(DefaultMaxRetries + 1)
              /\ s.thrown # NoError => s.thrown.id > Len(s.sent) - s.retry.invoked
         /\ (s.result.state = "rejected" /\ s.preflight.status = "ok"
               /\ ~s.retry.running) =>
              /\ Len(api) = 1
              /\ s.result.error = s.thrown
              /\ s.thrown.id = Len(s.sent)
         /\ s.result.state = "fulfilled" => Len(api) >= 2

\* the request for the current user failed: the call is over after one request
C22_Witness ==
  \E t \in Tasks :
    LET s == task[t] IN
      /\ s.call.name = "createPlaylist" /\ s.result.state = "rejected"
      /\ Len(ApiSent(s)) = 1
      /\ s.thrown.name = "NetworkError"

(***************************************************************************)
(* C23, as stated: a catalog operation that fails, fails with one of the   *)
(* four typed failures, and that failure is the value that was raised to   *)
(* it last: by its pre-flight, or for the last request it sent.            *)
(***************************************************************************)
C23_Original ==
  \A t \in Tasks :
    LET s == task[t] IN
      (s.call.name \in CatalogNames /\ s.result.state = "rejected") =>
        /\ s.result.error.name \in TypedFailureNames
        /\ s.result.error = IF s.preflight.status = "failed"
                            THEN s.preflight.error ELSE s.thrown

(***************************************************************************)
(* C23, amended: a catalog operation that fails, fails either with the     *)
(* AuthenticationError of its pre-flight, no request having been sent, or  *)
(* with the error the classifier threw for the last request it sent,       *)
(* unchanged: the last failure of the retried call, or the failure of the  *)
(* unretried GET /me of createPlaylist. That error is one of the four      *)
(* typed failures unless the request could not be set up, when it is the   *)
(* plain Error with the original message.                                  *)
(***************************************************************************)
C23_Amended ==
  \A t \in Tasks :
    LET s == task[t] IN
      (s.call.name \in CatalogNames /\ s.result.state = "rejected") =>
        IF s.preflight.status = "failed"
        THEN /\ s.result.error = s.preflight.error
             /\ s.result.error.name = "AuthenticationError"
             /\ ApiRequests(s) = {}
        ELSE /\ s.result.error = s.thrown
             /\ s.thrown = Classify(s.raw, Len(s.sent))
             /\ InFlight(s).endpoint = "api"
             /\ IF s.retry.running
                THEN /\ s.result.error = s.retry.lastError
                     /\ s.retry.invoked = s.retry.maxRetries + 1
                ELSE /\ s.call.name = "createPlaylist"
                     /\ Len(ApiSent(s)) = 1
             /\ IF s.raw.response.present \/ s.raw.request
                THEN s.result.error.name \in TypedFailureNames
                ELSE s.result.error = GenericError(s.raw.message, Len(s.sent))

\* a paginated read gives up on a rate limit after its four attempts
C23_Witness ==
  \E t \in Tasks :
    LET s == task[t] IN
      /\ s.call.name = "getLikedSongs" /\ s.result.state = "rejected"
      /\ s.retry.running /\ s.retry.invoked = 4
      /\ s.result.error.name = "RateLimitError"
      /\ s.result.error = s.retry.lastError

(***************************************************************************)
(* C24, as stated: once a refresh has succeeded, the stored refresh token  *)
(* is the one the request presented when the response carried none, and    *)
(* the one of the response when it carried one.                            *)
(***************************************************************************)
C24_Original ==
  \A t \in Tasks :
    LET s == task[t] IN
      (s.tokenData # NoTokenData /\ TokenRequests(s) # {}
         /\ s.sent[1].payload[1] = "refresh_token") =>
        /\ tokens # None
        /\ tokens[1].refresh_token =
             IF s.tokenData.refresh_token = 0
             THEN s.sent[1].payload[2] ELSE s.tokenData.refresh_token

(***************************************************************************)
(* C25, as stated: while the retrier is suspended after a rate-limit       *)
(* failure that announced a reset period of n seconds, the suspension it   *)
(* has started lasts at least n seconds.                                   *)
(***************************************************************************)
C25_Original ==
  \A t \in Tasks :
    LET s == task[t] IN
      (s.pc = "sleep" /\ s.retry.lastError.name = "RateLimitError"
         /\ s.retry.lastError.retryAfter.tag = "num") =>
        s.retry.delays[Len(s.retry.delays)] >= s.retry.lastError.retryAfter.v * 1000

(***************************************************************************)
(* C26, as stated: when a request of a retried call has failed with an     *)
(* authentication error and the call is attempted again, a refresh request *)
(* has been sent between the failed request and the new attempt.           *)
(***************************************************************************)
C26_Original ==
  \A t \in Tasks :
    LET s == task[t] IN
      (s.pc = "wait" /\ s.retry.running /\ s.retry.attempt > 0
         /\ s.thrown.name = "AuthenticationError") =>
        \E k \in TokenRequests(s) :
          /\ s.thrown.id < k /\ k < Len(s.sent)
          /\ s.sent[k].payload[1] = "refresh_token"

(***************************************************************************)
(* C27: a call of generateAuthUrl(state), in whatever state of the session *)
(* and at whatever time, returns at once, sends no request and leaves      *)
(* Token State as it is; the URL it returns is the authorize endpoint with *)
(* client id, response type, redirect URI and the three scopes, followed   *)
(* by the state parameter when a non-empty one is given: a value that      *)
(* depends on configuration and argument only.                             *)
(***************************************************************************)
C27_GenerateAuthUrlPure ==
  [][\A t \in Tasks :
       LET n == task'[t]
           state == task'[t].call.arg
       IN (task[t].pc = "idle" /\ n.call.name = "generateAuthUrl") =>
            /\ tokens' = tokens
            /\ n.sent = << >>
            /\ n.pc = "done"
            /\ n.result.state = "fulfilled"
            /\ n.result.value[1].origin = "https://accounts.spotify.com/authorize"
            /\ n.result.value[1].params =
                 <<<<"client_id", ClientId>>, <<"response_type", "code">>,
                   <<"redirect_uri", RedirectUri>>,
                   <<"scope", "user-library-read playlist-modify-public playlist-modify-private">>>>
                 \o (IF state = "xyz" THEN <<<<"state", "xyz">>>> ELSE << >>)]_vars

\* the URL is built in an authenticated session, after the clock has advanced
C27_Witness ==
  \E t \in Tasks :
    /\ task[t].call.name = "generateAuthUrl" /\ task[t].pc = "done"
    /\ task[t].call.arg = "xyz"
    /\ Len(task[t].result.value[1].params) = 5
    /\ tokens # None /\ now > 0

(***************************************************************************)
(* The session's state as the specification names it.                      *)
(***************************************************************************)
SessionState ==
  IF tokens = None THEN "Unauthenticated"
  ELSE IF \E t \in Tasks : task[t].pc = "refresh_wait" THEN "Refreshing"
  ELSE "Authenticated"

\* the session leaves Unauthenticated by a successful exchange or a set only,
\* and a successful refresh takes it from Refreshing to Authenticated
SessionEntersAndRefreshes ==
  /\ (SessionState = "Unauthenticated" /\ SessionState' # "Unauthenticated") =>
       /\ SessionState' = "Authenticated"
       /\ \/ \E t \in Tasks : TokenSuccess(t) /\ task[t].pc = "exchange_wait"
          \/ task' = task
  /\ (SessionState = "Authenticated" /\ SessionState' = "Refreshing") =>
       \E t \in Tasks : task[t].pc = "idle" /\ task'[t].pc = "refresh_wait"
  /\ \A t \in Tasks :
       (TokenSuccess(t) /\ task[t].pc = "refresh_wait") =>
         SessionState = "Refreshing" /\ SessionState' = "Authenticated"

(***************************************************************************)
(* C28, as stated: the session leaves Unauthenticated only by a successful *)
(* exchange or an explicit set, a successful refresh takes it from         *)
(* Refreshing back to Authenticated, and a refresh the token endpoint      *)
(* refuses for good ("Invalid refresh token") takes it to Unauthenticated. *)
(***************************************************************************)
C28_Original ==
  [][/\ SessionEntersAndRefreshes
     /\ \A t \in Tasks :
          (TokenFailure(t) /\ task[t].pc = "refresh_wait"
             /\ task'[t].result.error.message = "Invalid refresh token") =>
            SessionState' = "Unauthenticated"]_vars

(***************************************************************************)
(* C28, amended: the session leaves Unauthenticated only by a successful   *)
(* exchange or an explicit set; it is Refreshing exactly while a refresh   *)
(* request is in flight, entered from Authenticated, and goes back to      *)
(* Authenticated when the request is answered, with the new access token   *)
(* on success and with the snapshot untouched on any failure; once it has  *)
(* left Unauthenticated it never returns there.                            *)
(***************************************************************************)
C28_Amended ==
  [][/\ SessionEntersAndRefreshes
     /\ SessionState' = "Refreshing" => SessionState \in {"Authenticated", "Refreshing"}
     /\ (SessionState = "Refreshing" /\ SessionState' # "Refreshing") =>
          \E t \in Tasks :
            /\ task[t].pc = "refresh_wait"
            /\ TokenSuccess(t) \/ TokenFailure(t)
     /\ \A t \in Tasks :
          (TokenFailure(t) /\ task[t].pc = "refresh_wait") =>
            /\ SessionState = "Refreshing" /\ SessionState' = "Authenticated"
            /\ tokens' = tokens
     /\ SessionState # "Unauthenticated" => SessionState' # "Unauthenticated"]_vars

\* a refresh has been refused for good and the session is still authenticated
C28_Witness ==
  \E t \in Tasks :
    /\ task[t].call.name = "refreshAccessToken" /\ task[t].result.state = "rejected"
    /\ task[t].result.error.message = "Invalid refresh token"
    /\ TokenRequests(task[t]) # {}
    /\ SessionState = "Authenticated"

(***************************************************************************)
(* C29: a step changes Token State only when it is a setTokens, or the     *)
(* success of an exchange or of a refresh, which store the snapshot built  *)
(* from the response; every other step leaves it as it is: the start of a  *)
(* call, generateAuthUrl, the sending of a request, a response of the      *)
(* resource API whether success or classified failure, the retrier's       *)
(* suspension and wake-up, the return of a result, and every failed        *)
(* exchange or refresh.                                                    *)
(***************************************************************************)
C29_TokenStateWriters ==
  [][/\ tokens' # tokens =>
          \/ task' = task /\ tokens' # None
          \/ \E t \in Tasks :
               /\ TokenSuccess(t)
               /\ tokens' # None
               /\ tokens'[1].access_token = task'[t].tokenData.access_token
     /\ \A t \in Tasks :
          (task'[t] # task[t] /\ ~TokenSuccess(t)) => tokens' = tokens]_vars

\* a catalog operation has given up on 401 answers and the snapshot is still
\* the one that was set
C29_Witness ==
  \E t \in Tasks :
    LET s == task[t] IN
      /\ s.call.name \in CatalogNames /\ s.result.state = "rejected"
      /\ s.result.error.name = "AuthenticationError" /\ s.result.error.status = 401
      /\ Len(ApiSent(s)) >= 4
      /\ tokens # None /\ tokens[1].access_token = 101

C39_Original ==
  \A t \in Tasks :
    LET s == task[t] IN
      (s.call.name = "retryWithBackoff" /\ s.pc = "done") =>
        /\ s.retry.invoked >= 1
        /\ s.sent # << >>
        /\ s.result.state = "rejected" =>
             s.thrown # NoError /\ s.result.error = s.thrown

C33_RetriesTransparent ==
  \A t \in Tasks :
    LET s == task[t]
        api == ApiSent(s)
        urls == Runs([i \in 1..Len(api) |-> api[i].url])
        chunks == Runs([i \in 1..Len(api) |-> api[i].payload])
    IN /\ (s.call.name \in {"getLikedSongs", "getTrackDetails"}
            /\ s.pc = "wait" /\ s.retry.attempt > 0) =>
            /\ api[Len(api)].url = api[Len(api) - 1].url
            /\ api[Len(api)].payload = api[Len(api) - 1].payload
       /\ (s.call.name = "getLikedSongs" /\ s.result.state = "fulfilled"
            /\ s.thrown # NoError) =>
            /\ s.result.value = TracksOf(s.call.arg)
            /\ Len(urls) = Len(s.call.arg)
       /\ (s.call.name = "getTrackDetails" /\ s.result.state = "fulfilled"
            /\ s.thrown # NoError) =>
            /\ s.result.value = s.call.arg
            /\ chunks = Batches(s.call.arg, TrackBatchSize)

\* 101 ids fetched in three chunks and five requests, two of which failed
C33_Witness ==
  \E t \in Tasks :
    LET s == task[t] IN
      /\ s.call.name = "getTrackDetails" /\ s.result.state = "fulfilled"
      /\ Len(s.call.arg) = 101
      /\ Len(ApiSent(s)) = 5
      /\ s.thrown # NoError
      /\ s.result.value = s.call.arg

(***************************************************************************)
(* C37: no step of the client takes Token State from present to absent:    *)
(* isAuthenticated() once true is true after every step, whether the step  *)
(* is a setTokens, the success or failure of an exchange or refresh, or    *)
(* any step of a catalog operation.                                        *)
(***************************************************************************)
C37_NeverSignedOut ==
  [][IsAuthenticated => IsAuthenticated' /\ GetTokens' # None]_vars

\* an exchange has failed in an authenticated session, which stays so
C37_Witness ==
  \E t \in Tasks :
    /\ task[t].call.name = "exchangeCodeForToken"
    /\ task[t].result.state = "rejected"
    /\ IsAuthenticated

(***************************************************************************)
(* C38, as stated: the service carries out the write of a retried          *)
(* mutating call at most once: one createPlaylist creates at most one      *)
(* playlist, one addTracksToPlaylist inserts each chunk at most once.      *)
(***************************************************************************)
C38_Original ==
  \A t \in Tasks :
    task[t].call.name \in {"createPlaylist", "addTracksToPlaylist"} =>
      task[t].applied <= 1

(***************************************************************************)
(* C31: every transport call returning and every timer firing, a call of   *)
(* retryWithBackoff, getTrackDetails, createPlaylist or                    *)
(* addTracksToPlaylist that is under way (waiting for its refresh, for a   *)
(* response or for its backoff timer) comes to its end: fulfilled, or      *)
(* rejected with the failure of its pre-flight or of the last request it   *)
(* sent, the retrier's attempts being used up when it was running.         *)
(***************************************************************************)
C31_CallsComplete ==
  \A t \in Tasks :
    (/\ task[t].pc \in {"refresh_wait", "ensured", "wait", "sleep"}
     /\ task[t].call.name \in {"retryWithBackoff", "getTrackDetails",
                                "createPlaylist", "addTracksToPlaylist"})
    ~> (/\ task[t].pc = "done"
        /\ \/ task[t].result.state = "fulfilled"
           \/ /\ task[t].result.state = "rejected"
              /\ task[t].result.error \in {task[t].preflight.error, task[t].thrown}
              /\ task[t].result.error # NoError
              /\ task[t].retry.running =>
                   task[t].retry.invoked = task[t].retry.maxRetries + 1)

\* a batched call has come to its end by using up its attempts on a chunk
C31_Witness ==
  \E t \in Tasks :
    LET s == task[t] IN
      /\ s.call.name = "addTracksToPlaylist" /\ s.pc = "done"
      /\ s.result.state = "rejected" /\ s.retry.invoked = 4
      /\ s.local.idx = 2

(***************************************************************************)
(* C32: a getLikedSongs() whose request for page k has used up its         *)
(* attempts is rejected with the failure of its last request and hands     *)
(* over no items, whatever it had accumulated from the pages before; and   *)
(* every getLikedSongs(), also one made after an earlier call has failed,  *)
(* starts with nothing accumulated and sends its first request to the      *)
(* first-page endpoint.                                                    *)
(***************************************************************************)
C32_NoPartialProgress ==
  \A t \in Tasks :
    LET s == task[t]
        api == ApiSent(s)
        urls == Runs([i \in 1..Len(api) |-> api[i].url])
    IN s.call.name = "getLikedSongs" =>
         /\ s.result.state = "rejected" =>
              /\ s.result.value = << >>
              /\ s.preflight.status = "ok" =>
                   /\ Exhausted(s)
                   /\ s.result.error = s.thrown
                   /\ s.thrown.id = Len(s.sent)
         /\ api # << >> => api[1].url = RelativeUrl(PagePaths[1], "")
         /\ Len(urls) <= 1 => s.local.allSongs = << >>

\* the second call of the host has failed on its second page, with the items
\* of the first page accumulated
C32_Witness ==
  \E t \in Tasks :
    LET s == task[t] IN
      /\ called = Tasks /\ \A u \in Tasks \ {t} : task[u].pc = "idle"
      /\ s.call.name = "getLikedSongs" /\ s.result.state = "rejected"
      /\ s.local.allSongs # << >>
      /\ s.result.value = << >>
      /\ Len(ApiSent(s)) = 5

(***************************************************************************)
(* C35, as stated: at most one refresh request is in flight at any time,   *)
(* also when two catalog operations are started one after the other        *)
(* without awaiting, with the stored snapshot within the horizon.          *)
(***************************************************************************)
C35_Original ==
  Cardinality({t \in Tasks : task[t].pc = "refresh_wait"}) <= 1

(***************************************************************************)
(* C36, as stated: whenever the stored access token is the one a task's    *)
(* token request has obtained, the stored refresh token is the one issued  *)
(* with it (exchange) or the one the request presented (refresh).          *)
(***************************************************************************)
C36_Original ==
  \A t \in Tasks :
    LET s == task[t] IN
      (tokens # None /\ s.tokenData # NoTokenData
         /\ tokens[1].access_token = s.tokenData.access_token) =>
        tokens[1].refresh_token =
          IF s.sent[1].payload[1] = "refresh_token"
          THEN s.sent[1].payload[2] ELSE s.tokenData.refresh_token

====
